---- MODULE Spec2Model ----
(***************************************************************************)
(* Model of DirectedAcyclicGraph (src/src/lib.rs): the node and edge sets, *)
(* the loader from_read, the mutations add_edge / remove_edge /            *)
(* remove_node with their mutually recursive purge passes, and the         *)
(* read-only analyzer (depths and the four statistics).                    *)
(*                                                                         *)
(* A graph value is a record [n |-> set of node ids, e |-> set of pairs    *)
(* <<from, to>>].  HashSet iteration order is unspecified, so every loop   *)
(* over a HashSet that mutates the graph is modelled by the set of graphs  *)
(* it can end in, over all iteration orders.                               *)
(***************************************************************************)
EXTENDS Integers, Sequences, FiniteSets, Bags, TLC

MaxNode == 3
MaxEdges == 3
MaxLines == 2

NodeIds == 1..MaxNode

VARIABLES nodes, edges, last, pre, nlines

vars == <<nodes, edges, last, pre, nlines>>

Origin == 1

----------------------------------------------------------------------------
(* Construction *)

New == [n |-> {}, e |-> {}]

\* Mutant of FromReadLoop: a node's id is taken to be its line number (i + 1).
RECURSIVE FromReadLoop_LineNumber(_, _, _)
FromReadLoop_LineNumber(dag, node_us, i) ==
  IF i >= Len(node_us) THEN dag
  ELSE LET left == node_us[i + 1][1]
           right == node_us[i + 1][2]
           ns == dag.n \cup {i + 1, left, right}
           e1 == IF i + 1 # left THEN dag.e \cup {<<i + 1, left>>} ELSE dag.e
           e2 == IF i + 1 # right THEN e1 \cup {<<i + 1, right>>} ELSE e1
       IN FromReadLoop_LineNumber([n |-> ns, e |-> e2], node_us, i + 1)

RECURSIVE FromReadLoop(_, _, _)
FromReadLoop(dag, node_us, i) ==
  IF i >= Len(node_us) THEN dag
  ELSE LET left == node_us[i + 1][1]
           right == node_us[i + 1][2]
           ns == dag.n \cup {i + 2, left, right}
           e1 == IF i + 2 # left THEN dag.e \cup {<<i + 2, left>>} ELSE dag.e
           e2 == IF i + 2 # right THEN e1 \cup {<<i + 2, right>>} ELSE e1
       IN FromReadLoop([n |-> ns, e |-> e2], node_us, i + 1)

FromRead(node_us) == FromReadLoop(New, node_us, 0)

SampleInput == << <<1, 1>>, <<1, 2>>, <<2, 2>>, <<3, 6>>, <<3, 3>> >>

Inputs ==
  UNION {[1..k -> NodeIds \X NodeIds] : k \in 0..MaxLines} \cup {SampleInput}

----------------------------------------------------------------------------
(* Mutation *)

AddEdgeRet(g, from, to) == from # to /\ <<from, to>> \notin g.e

\* Mutant of AddEdgeOut: the endpoints are inserted before the self-loop test.
AddEdgeOut_InsertFirst(g, from, to) ==
  [n |-> g.n \cup {from, to},
   e |-> IF from = to THEN g.e ELSE g.e \cup {<<from, to>>}]

AddEdgeOut(g, from, to) ==
  IF from = to THEN g
  ELSE [n |-> g.n \cup {from, to}, e |-> g.e \cup {<<from, to>>}]

StaleNodes(g) ==
  {node \in g.n : node # Origin
                  /\ Cardinality({x \in g.e : x[1] = node \/ x[2] = node}) = 0}

\* Mutant of StaleEdges: only the from endpoint is looked up in nodes.
StaleEdges_FromOnly(g) == {x \in g.e : x[1] \notin g.n}

StaleEdges(g) == {x \in g.e : x[1] \notin g.n \/ x[2] \notin g.n}

RECURSIVE RemoveEdgeOut(_, _, _)
RECURSIVE RemoveNodeOut(_, _)
RECURSIVE RemoveNodesEach(_, _)
RECURSIVE RemoveEdgesEach(_, _)

PurgeStaleNodes(g) == RemoveNodesEach(g, StaleNodes(g))

PurgeStaleEdges(g) == RemoveEdgesEach(g, StaleEdges(g))

RemoveEdgeRet(g, from, to) == <<from, to>> \in g.e

\* Mutant of RemoveEdgeOut: the edge is removed without the node purge.
RemoveEdgeOut_NoPurge(g, from, to) ==
  IF <<from, to>> \in g.e
  THEN {[g EXCEPT !.e = @ \ {<<from, to>>}]}
  ELSE {g}

RemoveEdgeOut(g, from, to) ==
  IF <<from, to>> \in g.e
  THEN PurgeStaleNodes([g EXCEPT !.e = @ \ {<<from, to>>}])
  ELSE {g}

RemoveNodeRet(g, node) == ~(node = Origin \/ node \notin g.n)

RemoveNodeOut(g, node) ==
  IF node = Origin \/ node \notin g.n
  THEN {g}
  ELSE PurgeStaleEdges([g EXCEPT !.n = @ \ {node}])

RemoveNodesEach(g, nodes_to_remove) ==
  IF nodes_to_remove = {} THEN {g}
  ELSE UNION {UNION {RemoveNodesEach(g2, nodes_to_remove \ {node})
                       : g2 \in RemoveNodeOut(g, node)}
                : node \in nodes_to_remove}

RemoveEdgesEach(g, edges_to_remove) ==
  IF edges_to_remove = {} THEN {g}
  ELSE UNION {UNION {RemoveEdgesEach(g2, edges_to_remove \ {x})
                       : g2 \in RemoveEdgeOut(g, x[1], x[2])}
                : x \in edges_to_remove}

----------------------------------------------------------------------------
(* Analyzer.  depths returns a Vec of paths whose order follows the        *)
(* unspecified HashSet order; it is modelled as the bag of its elements.   *)
(* A path is stored origin first: the base case is [1] and every frame     *)
(* pushes its own node at the end.  depths recurses without bound on a     *)
(* cyclic graph, so the analyzer is only evaluated on acyclic edge sets.   *)

\* Mutant of Neighbors: the edges are followed from their to endpoint.
Neighbors_Reversed(E, node) == {x[1] : x \in {y \in E : y[2] = node}}

Neighbors(E, node) == {x[2] : x \in {y \in E : y[1] = node}}

RECURSIVE Depths(_, _)
RECURSIVE ExtendDepths(_, _, _, _)

Depths(E, node) ==
  IF node = Origin THEN SetToBag({<<Origin>>})
  ELSE ExtendDepths(E, node, Neighbors(E, node), EmptyBag)

ExtendDepths(E, node, neighbors, depths) ==
  IF neighbors = {} THEN depths
  ELSE LET neighbor == CHOOSE x \in neighbors : TRUE
           sub == IF node # neighbor THEN Depths(E, neighbor) ELSE EmptyBag
           kept == {d \in BagToSet(sub) : \A k \in 1..Len(d) : d[k] # node}
           pushed == [p \in {Append(d, node) : d \in kept}
                        |-> sub[SubSeq(p, 1, Len(p) - 1)]]
       IN ExtendDepths(E, node, neighbors \ {neighbor}, depths (+) pushed)

F64Div(num, den) == [panic |-> FALSE, num |-> num, den |-> den]

Panic == [panic |-> TRUE, num |-> 0, den |-> 0]

MinOf(S) == CHOOSE m \in S : \A x \in S : m <= x

RECURSIVE SumMinDepth(_, _)
SumMinDepth(g, S) ==
  IF S = {} THEN 0
  ELSE LET node == CHOOSE x \in S : TRUE
           d == IF node = Origin THEN 0
                ELSE MinOf({Len(p) - 1 : p \in BagToSet(Depths(g.e, node))})
       IN d + SumMinDepth(g, S \ {node})

AvgDepth(g) ==
  IF \E node \in g.n \ {Origin} : BagToSet(Depths(g.e, node)) = {}
  THEN Panic
  ELSE F64Div(SumMinDepth(g, g.n), Cardinality(g.n))

RECURSIVE PathBag(_, _)
PathBag(g, S) ==
  IF S = {} THEN EmptyBag
  ELSE LET node == CHOOSE x \in S : TRUE
       IN Depths(g.e, node) (+) PathBag(g, S \ {node})

RECURSIVE SumCopies(_, _)
SumCopies(B, S) ==
  IF S = {} THEN 0
  ELSE LET p == CHOOSE x \in S : TRUE
       IN B[p] + SumCopies(B, S \ {p})

NodeCountPerDepth(g) ==
  LET B == PathBag(g, g.n \ {Origin})
  IN [l \in {Len(p) : p \in BagToSet(B)}
        |-> SumCopies(B, {p \in BagToSet(B) : Len(p) = l})]

RECURSIVE SumValues(_, _)
SumValues(f, S) ==
  IF S = {} THEN 0
  ELSE LET k == CHOOSE x \in S : TRUE
       IN f[k] + SumValues(f, S \ {k})

AvgNodePerDepth(g) ==
  LET m == NodeCountPerDepth(g)
  IN F64Div(SumValues(m, DOMAIN m), Cardinality(DOMAIN m))

\* Mutant of AvgRefTotal: the origin is skipped, as in avg_node_per_depth.
RECURSIVE AvgRefTotal_SkipOrigin(_, _)
AvgRefTotal_SkipOrigin(g, S) ==
  IF S = {} THEN 0
  ELSE LET node == CHOOSE x \in S : TRUE
           c == IF node = 1 THEN 0 ELSE Cardinality({x \in g.e : x[2] = node})
       IN c + AvgRefTotal_SkipOrigin(g, S \ {node})

RECURSIVE AvgRefTotal(_, _)
AvgRefTotal(g, S) ==
  IF S = {} THEN 0
  ELSE LET node == CHOOSE x \in S : TRUE
       IN Cardinality({x \in g.e : x[2] = node}) + AvgRefTotal(g, S \ {node})

AvgRef(g) == F64Div(AvgRefTotal(g, g.n), Cardinality(g.n))

\* Mutant of MaxLen: a path is measured in edges (len - 1), as in avg_depth.
RECURSIVE MaxLen_Edges(_, _)
MaxLen_Edges(S, max) ==
  IF S = {} THEN max
  ELSE LET depth == CHOOSE x \in S : TRUE
       IN MaxLen_Edges(S \ {depth},
                       IF Len(depth) - 1 > max THEN Len(depth) - 1 ELSE max)

RECURSIVE MaxLen(_, _)
MaxLen(S, max) ==
  IF S = {} THEN max
  ELSE LET depth == CHOOSE x \in S : TRUE
       IN MaxLen(S \ {depth}, IF Len(depth) > max THEN Len(depth) ELSE max)

MaxDepth(g) == MaxLen(BagToSet(PathBag(g, g.n)), 0)

----------------------------------------------------------------------------
(* State machine *)

Graph == [n |-> nodes, e |-> edges]

Call(op, a, b, ret, input) ==
  [op |-> op, a |-> a, b |-> b, ret |-> ret, input |-> input]

Init ==
  \E node_us \in Inputs :
    \E viaRead \in BOOLEAN :
      /\ (~viaRead) => node_us = <<>>
      /\ LET g == IF viaRead THEN FromRead(node_us) ELSE New
         IN /\ nodes = g.n
            /\ edges = g.e
            /\ pre = New
            /\ last = Call(IF viaRead THEN "from_read" ELSE "new",
                           0, 0, TRUE, node_us)
            /\ nlines = Len(node_us)

AddEdge ==
  \E from \in NodeIds, to \in NodeIds :
    /\ from = to \/ Cardinality(edges \cup {<<from, to>>}) <= MaxEdges
    /\ LET g == AddEdgeOut(Graph, from, to)
       IN /\ nodes' = g.n
          /\ edges' = g.e
    /\ last' = Call("add_edge", from, to, AddEdgeRet(Graph, from, to), <<>>)
    /\ pre' = Graph
    /\ UNCHANGED nlines

RemoveEdge ==
  \E x \in edges \cup (NodeIds \X NodeIds) :
    /\ \E g \in RemoveEdgeOut(Graph, x[1], x[2]) :
         /\ nodes' = g.n
         /\ edges' = g.e
    /\ last' = Call("remove_edge", x[1], x[2],
                    RemoveEdgeRet(Graph, x[1], x[2]), <<>>)
    /\ pre' = Graph
    /\ UNCHANGED nlines

RemoveNode ==
  \E node \in nodes \cup NodeIds :
    /\ \E g \in RemoveNodeOut(Graph, node) :
         /\ nodes' = g.n
         /\ edges' = g.e
    /\ last' = Call("remove_node", node, 0, RemoveNodeRet(Graph, node), <<>>)
    /\ pre' = Graph
    /\ UNCHANGED nlines

Next == AddEdge \/ RemoveEdge \/ RemoveNode

Spec == Init /\ [][Next]_vars

----------------------------------------------------------------------------
(* Reference notions the properties are stated with *)

EndpointsOf(E) == {x[1] : x \in E} \cup {x[2] : x \in E}

RECURSIVE AcyclicOn(_, _)
AcyclicOn(N, E) ==
  IF N = {} THEN TRUE
  ELSE LET sinks == {v \in N : \A x \in E : x[1] = v => x[2] \notin N}
       IN IF sinks = {} THEN FALSE ELSE AcyclicOn(N \ sinks, E)

Acyclic(E) == AcyclicOn(EndpointsOf(E), E)

\* Paths grown from the origin outwards against the edge direction: a path
\* <<1, ..., v>> of k nodes becomes <<1, ..., v, u>> for every edge (u, v).
RECURSIVE PathsOfLen(_, _)
PathsOfLen(E, k) ==
  IF k = 1 THEN {<<Origin>>}
  ELSE UNION {{Append(p, x[1]) : x \in {y \in E : y[2] = p[Len(p)]}}
                : p \in PathsOfLen(E, k - 1)}

PathsToOrigin(E) ==
  UNION {PathsOfLen(E, k) : k \in 1..(Cardinality(EndpointsOf(E)) + 1)}

AllPaths(E, node) == {p \in PathsToOrigin(E) : p[Len(p)] = node}

Incident(E, node) == {x \in E : x[1] = node \/ x[2] = node}

NoDanglingEdge == \A x \in edges : x[1] \in nodes /\ x[2] \in nodes

NoOrphanNode == \A v \in nodes \ {Origin} : Incident(edges, v) # {}

SampleGraph ==
  [n |-> 1..6,
   e |-> {<<6, 3>>, <<4, 2>>, <<5, 3>>, <<5, 6>>, <<3, 2>>, <<2, 1>>, <<3, 1>>}]

ExpectedNodes(input) ==
  UNION {{i + 2, input[i + 1][1], input[i + 1][2]} : i \in 0..(Len(input) - 1)}

ExpectedEdges(input) ==
  {x \in UNION {{<<i + 2, input[i + 1][1]>>, <<i + 2, input[i + 1][2]>>}
                  : i \in 0..(Len(input) - 1)} : x[1] # x[2]}

----------------------------------------------------------------------------
(* Properties *)

\* C1: whenever remove_edge or remove_node returns true, the graph at return
\* has no edge with an endpoint absent from nodes and no node other than 1
\* with zero incident edges.
C1_StableAfterRemove ==
  (last.op \in {"remove_edge", "remove_node"} /\ last.ret)
    => (NoDanglingEdge /\ NoOrphanNode)

\* C2: rejected mutations -- add_edge(x, x), remove_node(1), remove_node of an
\* absent node, remove_edge of an absent edge -- return false and leave nodes
\* and edges as they were before the call.
C2_RejectedUnchanged ==
  /\ (last.op = "add_edge" /\ last.a = last.b)
       => (~last.ret /\ Graph = pre)
  /\ (last.op = "remove_node" /\ (last.a = 1 \/ last.a \notin pre.n))
       => (~last.ret /\ Graph = pre)
  /\ (last.op = "remove_edge" /\ <<last.a, last.b>> \notin pre.e)
       => (~last.ret /\ Graph = pre)

C2_Witness ==
  /\ last.op = "add_edge"
  /\ last.a = last.b
  /\ last.a \notin pre.n
  /\ pre.e # {}
  /\ ~last.ret

\* C3: on an acyclic graph depths(n) holds every directed path from n to
\* node 1 exactly once and nothing else; depths(1) is the single path [1] and
\* depths(n) is empty for a non-origin n without a route to 1.
C3_DepthsAllPaths ==
  Acyclic(edges) =>
    /\ \A v \in nodes \cup NodeIds :
         Depths(edges, v) = SetToBag(AllPaths(edges, v))
    /\ Depths(edges, 1) = SetToBag({<<1>>})
    /\ \A v \in (nodes \cup NodeIds) \ {1} :
         Neighbors(edges, v) = {} => BagToSet(Depths(edges, v)) = {}

C3_Witness ==
  /\ Acyclic(edges)
  /\ \E v \in nodes : BagCardinality(Depths(edges, v)) >= 2
  /\ \E v \in nodes \ {1} : Neighbors(edges, v) # {}
                            /\ BagToSet(Depths(edges, v)) = {}

\* C4: on every non-empty acyclic graph avg_depth, avg_node_per_depth,
\* avg_ref and max_depth return a value and never abort, also when some
\* non-origin node has no path to node 1.
C4_StatisticsTotal ==
  (nodes # {} /\ Acyclic(edges)) =>
    /\ ~AvgDepth(Graph).panic
    /\ ~AvgNodePerDepth(Graph).panic
    /\ ~AvgRef(Graph).panic
    /\ MaxDepth(Graph) \in Nat

\* C5: node 1 is in nodes in every graph from_read builds from at least one
\* data line, and stays there after every later mutation.
C5_OriginPresent == nlines >= 1 => 1 \in nodes

\* C6: after remove_node(n) returns true, n is not in nodes and no edge has
\* n as its from or to endpoint.
C6_RemoveNodeGone ==
  (last.op = "remove_node" /\ last.ret)
    => /\ last.a \notin nodes
       /\ \A x \in edges : x[1] # last.a /\ x[2] # last.a

C6_Witness ==
  /\ last.op = "remove_node"
  /\ last.ret
  /\ \E x \in pre.e : x[1] = last.a
  /\ \E x \in pre.e : x[2] = last.a

\* C7: after remove_edge(a, b) returns true, every node other than 1 whose
\* only incident edge before the call was (a, b) is not in nodes.
C7_RemoveEdgeOrphans ==
  (last.op = "remove_edge" /\ last.ret)
    => \A v \in pre.n \ {1} :
         Incident(pre.e, v) = {<<last.a, last.b>>} => v \notin nodes

C7_Witness ==
  /\ last.op = "remove_edge"
  /\ last.ret
  /\ last.a # 1 /\ last.b # 1
  /\ Incident(pre.e, last.a) = {<<last.a, last.b>>}
  /\ Incident(pre.e, last.b) = {<<last.a, last.b>>}
  /\ edges # {}

\* C8: from_read of data lines (left_i, right_i), i from 0, yields nodes equal
\* to the set of all i+2, left_i, right_i and edges equal to the set of pairs
\* (i+2, left_i), (i+2, right_i) without those whose parent is i+2; no
\* self-loop is stored; the sample input gives 6 nodes and 7 edges.
C8_FromReadSets ==
  last.op = "from_read" =>
    /\ nodes = ExpectedNodes(last.input)
    /\ edges = ExpectedEdges(last.input)
    /\ \A x \in edges : x[1] # x[2]
    /\ last.input = SampleInput
         => (Cardinality(nodes) = 6 /\ Cardinality(edges) = 7)

C8_Witness ==
  /\ last.op = "from_read"
  /\ \E i \in 0..(Len(last.input) - 1) :
       last.input[i + 1][1] = i + 2 /\ last.input[i + 1][2] # i + 2
  /\ \E i \in 0..(Len(last.input) - 1) :
       last.input[i + 1][1] = last.input[i + 1][2] /\ last.input[i + 1][1] # i + 2

\* C9: on an acyclic graph max_depth is the largest number of nodes on a
\* directed path from a node of nodes to node 1, 0 when there is no such
\* path; on the sample graph it is 5.
C9_MaxDepth ==
  Acyclic(edges) =>
    /\ \A p \in PathsToOrigin(edges) :
         p[Len(p)] \in nodes => Len(p) <= MaxDepth(Graph)
    /\ \/ \E p \in PathsToOrigin(edges) :
            p[Len(p)] \in nodes /\ Len(p) = MaxDepth(Graph)
       \/ /\ MaxDepth(Graph) = 0
          /\ \A p \in PathsToOrigin(edges) : p[Len(p)] \notin nodes
    /\ Graph = SampleGraph => MaxDepth(Graph) = 5

C9_Witness == Graph = SampleGraph /\ last.op = "from_read"

\* C10: the integer total avg_ref divides (the sum over nodes of the number
\* of edges ending in the node) is the number of edges, so avg_ref is edge
\* count over node count; 7 over 6 on the sample graph.
C10_AvgRefTotal ==
  /\ AvgRefTotal(Graph, nodes) = Cardinality(edges)
  /\ AvgRef(Graph) = F64Div(Cardinality(edges), Cardinality(nodes))
  /\ Graph = SampleGraph => AvgRef(Graph) = F64Div(7, 6)

C10_Witness ==
  /\ last.op = "remove_node"
  /\ last.ret
  /\ \E x \in pre.e : x[2] = last.a
  /\ \E x \in edges : x[2] = 1
  /\ \E x \in edges : x[2] # 1

====
